---- MODULE Spec2Model ----
(***************************************************************************)
(* camera-snitch (src/src/main.rs): a daemon that watches /dev/video* with *)
(* inotify, debounces open/close events and publishes the camera state to  *)
(* an MQTT broker.  The model follows main(), send_event() and             *)
(* write_discovery() statement by statement.  Time is a discrete clock     *)
(* `now`; durations are in the same unit.                                  *)
(***************************************************************************)
EXTENDS Integers, Sequences, FiniteSets, TLC

\* ---------------------------------------------------------------- bounds
\* largest --debounce-duration explored (the argument is any u64)
MaxWindow == 2
\* the clock stops advancing at MaxTime
MaxTime == 4
\* largest number of /dev/video* entries the glob yields
MaxDevices == 1
\* largest --loop-duration explored
MaxLoopDuration == 1

\* ------------------------------------------------------ program constants
\* AsyncClient::new(mqttoptions, 10): capacity of the request channel
CHANNEL_CAP == 10

\* enum CameraState { On, Off }
CameraState == {"On", "Off"}

\* what stream.next() can yield inside Some(..): an Ok event with one of the
\* masks the match distinguishes, an Ok event with any other mask, or an Err
DetectorEvents == {"OPEN", "CLOSE_NOWRITE", "CLOSE_WRITE", "OTHER", "ERR"}

\* the Ok(notification) shapes the broker branch matches
Notifications == {"IncomingPublish", "Incoming", "Outgoing"}

\* one entry of the glob iterator: a path whose watch is added, a GlobError,
\* or a path whose watches().add() fails
GlobEntries == {"ok", "globerr", "watcherr"}

\* Result of AsyncClient::publish when it returns
PublishResults == {"ok", "err"}

\* topics of the two kinds of request
StateTopic == "homeassistant/binary_sensor/officecamera/state"
ConfigTopic == "homeassistant/binary_sensor/officecamera/config"

VARIABLES
    pc,                 \* position of main(): init, glob, discovery, debounce,
                        \* stream, loop, publishing (inside a publish that
                        \* has not returned), exited (main returned Err)
    debounce_duration,  \* args.debounce_duration
    loop_duration,      \* args.loop_duration
    files,              \* entries the glob iterator has still to yield
    watches,            \* number of inotify watches registered
    now,                \* the monotonic clock
    last_state,         \* let mut last_state
    last_event_time,    \* let mut last_event_time
    requests,           \* the client/eventloop request channel (topics, FIFO)
    streamEnded,        \* stream.next() has returned None in the iteration
                        \* under way (the branch is disabled until the next)
    step,               \* history: what the latest step of main() did
    discoveryCalls,     \* history: number of discovery publishes attempted
    discoveryOutcome,   \* history: result of the discovery publish
    pubHist,            \* history: the last two states passed to send_event
    firstPub,           \* history: the first state ever passed to send_event
    lastOutcome,        \* history: result of the latest publish of a state
    lastRaw,            \* history: candidate of the latest detector signal
    lastRawAt,          \* history: clock value of the latest detector signal
    burst,              \* history: candidates of the signals handled inside
                        \* the window since the last confirmed transition
    everChanged,        \* history: the loop has changed last_state
    lastChangeAt        \* history: clock value of the latest such change

vars == <<pc, debounce_duration, loop_duration, files, watches, now,
          last_state, last_event_time, requests, streamEnded, step,
          discoveryCalls, discoveryOutcome, pubHist, firstPub, lastOutcome,
          lastRaw, lastRawAt, burst, everChanged, lastChangeAt>>

\* ------------------------------------------------------------- helpers
RECURSIVE SeqsUpTo(_, _)
SeqsUpTo(S, n) ==
    IF n = 0 THEN {<<>>}
    ELSE LET shorter == SeqsUpTo(S, n - 1)
         IN  shorter \cup {Append(s, x) : s \in shorter, x \in S}

\* keep the last n elements of s
LastN(s, n) == IF Len(s) <= n THEN s ELSE SubSeq(s, Len(s) - n + 1, Len(s))

NoStep == [kind |-> "none", event |-> "none", candidate |-> "none",
           called |-> "none", payload |-> "none", outcome |-> "none"]

Did(kind) == [NoStep EXCEPT !.kind = kind]

\* ------------------------------------------------------- pure functions
\* lines 72-90: current_state starts as last_state.clone() and is overwritten
\* only by an Ok event whose mask is OPEN, CLOSE_NOWRITE or CLOSE_WRITE
CandidateDefaultOn(event, last) ==
    IF event \in {"CLOSE_NOWRITE", "CLOSE_WRITE"} THEN "Off" ELSE "On"
CandidateDefaultOff(event, last) ==
    IF event = "OPEN" THEN "On" ELSE "Off"
CandidateNoWriteClose(event, last) ==
    CASE event = "OPEN" -> "On"
      [] event = "CLOSE_NOWRITE" -> "Off"
      [] OTHER -> last
Candidate(event, last) ==
    CASE event = "OPEN" -> "On"
      [] event \in {"CLOSE_NOWRITE", "CLOSE_WRITE"} -> "Off"
      [] OTHER -> last

\* last_event_time.elapsed()
Elapsed(t, last_time) == t - last_time

\* line 96: the debounce condition
DebounceNoWindow(elapsed, window, current, last) == current # last
DebounceAnyCandidate(elapsed, window, current, last) == elapsed >= window
DebounceStrict(elapsed, window, current, last) ==
    elapsed > window /\ current # last
Debounce(elapsed, window, current, last) ==
    elapsed >= window /\ current # last

\* lines 126-129: the payload of a state message
Payload(state) == IF state = "On" THEN "ON" ELSE "OFF"

\* AsyncClient::publish: the request is sent into the bounded channel.  A
\* returned Err leaves the channel as it was; with the channel full the send
\* does not return (it is drained only by eventloop.poll(), which the caller
\* is not running while it awaits the publish).
ClientPublish(chan, topic, res) ==
    IF res = "err" THEN [chan |-> chan, outcome |-> "err"]
    ELSE IF Len(chan) >= CHANNEL_CAP THEN [chan |-> chan, outcome |-> "blocked"]
    ELSE [chan |-> Append(chan, topic), outcome |-> "ok"]

\* lines 135-140: send_event logs either result and returns Ok(()); while the
\* publish has not returned, neither has send_event
SendEventPropagates(outcome) ==
    CASE outcome = "blocked" -> "Pending"
      [] outcome = "err" -> "Err"
      [] OTHER -> "Ok"
SendEventReturn(outcome) ==
    IF outcome = "blocked" THEN "Pending" ELSE "Ok"

\* line 125: the topic send_event publishes to
SendEventTopicConfig == ConfigTopic
SendEventTopic == StateTopic

\* lines 97-99: `send_event(..).await?` first; the two assignments run once
\* the publish inside it has returned, with either result
RecordStateNever(outcome, current, last) == last
RecordStateOnSuccess(outcome, current, last) ==
    IF outcome = "ok" THEN current ELSE last
RecordState(outcome, current, last) ==
    IF outcome = "blocked" THEN last ELSE current
RecordTime(outcome, t, last_time) ==
    IF outcome = "blocked" THEN last_time ELSE t

\* lines 166-173: write_discovery logs a failed publish and returns Ok(())
WriteDiscoveryPropagates(outcome) ==
    CASE outcome = "blocked" -> "Pending"
      [] outcome = "err" -> "Err"
      [] OTHER -> "Ok"
WriteDiscoveryReturn(outcome) ==
    IF outcome = "blocked" THEN "Pending" ELSE "Ok"

\* ---------------------------------------------------------------- Init
Init ==
    /\ pc = "init"
    /\ debounce_duration \in 0..MaxWindow
    /\ loop_duration \in 1..MaxLoopDuration
    /\ files \in SeqsUpTo(GlobEntries, MaxDevices)
    /\ watches = 0
    /\ now = 0
    /\ last_state = "Off"
    /\ last_event_time = 0
    /\ requests = <<>>
    /\ streamEnded = FALSE
    /\ step = NoStep
    /\ discoveryCalls = 0
    /\ discoveryOutcome = "none"
    /\ pubHist = <<>>
    /\ firstPub = "none"
    /\ lastOutcome = "none"
    /\ lastRaw = "none"
    /\ lastRawAt = 0
    /\ burst = <<>>
    /\ everChanged = FALSE
    /\ lastChangeAt = 0

\* ------------------------------------------------------------- startup
\* line 42: inotify::Inotify::init()?
InotifyInit(ok) ==
    /\ pc = "init"
    /\ pc' = IF ok THEN "glob" ELSE "exited"
    /\ step' = Did("inotify_init")
    /\ UNCHANGED <<debounce_duration, loop_duration, files, watches, now,
                   last_state, last_event_time, requests, streamEnded,
                   discoveryCalls, discoveryOutcome, pubHist, firstPub,
                   lastOutcome, lastRaw, lastRawAt, burst, everChanged,
                   lastChangeAt>>

\* lines 45-51: one turn of the for loop; `file?` and `add(..)?` return early
AddWatch ==
    /\ pc = "glob"
    /\ files # <<>>
    /\ files' = Tail(files)
    /\ IF Head(files) = "ok"
       THEN /\ watches' = watches + 1
            /\ pc' = "glob"
       ELSE /\ watches' = watches
            /\ pc' = "exited"
    /\ step' = [Did("add_watch") EXCEPT !.event = Head(files)]
    /\ UNCHANGED <<debounce_duration, loop_duration, now, last_state,
                   last_event_time, requests, streamEnded, discoveryCalls,
                   discoveryOutcome, pubHist, firstPub, lastOutcome, lastRaw,
                   lastRawAt, burst, everChanged, lastChangeAt>>

\* lines 53-60: the glob iterator is exhausted; the client and its event loop
\* are created with an empty request channel
NewClient ==
    /\ pc = "glob"
    /\ files = <<>>
    /\ requests' = <<>>
    /\ pc' = "discovery"
    /\ step' = Did("new_client")
    /\ UNCHANGED <<debounce_duration, loop_duration, files, watches, now,
                   last_state, last_event_time, streamEnded, discoveryCalls,
                   discoveryOutcome, pubHist, firstPub, lastOutcome, lastRaw,
                   lastRawAt, burst, everChanged, lastChangeAt>>

\* line 62 and lines 146-174: write_discovery(&mut client).await?
WriteDiscovery(res) ==
    /\ pc = "discovery"
    /\ LET p == ClientPublish(requests, ConfigTopic, res)
           ret == WriteDiscoveryReturn(p.outcome)
       IN  /\ requests' = p.chan
           /\ pc' = CASE ret = "Ok" -> "debounce"
                      [] ret = "Err" -> "exited"
                      [] OTHER -> "publishing"
           /\ step' = [Did("write_discovery") EXCEPT !.outcome = p.outcome]
    /\ discoveryCalls' = discoveryCalls + 1
    /\ discoveryOutcome' = ClientPublish(requests, ConfigTopic, res).outcome
    /\ UNCHANGED <<debounce_duration, loop_duration, files, watches, now,
                   last_state, last_event_time, streamEnded, pubHist,
                   firstPub, lastOutcome, lastRaw, lastRawAt, burst,
                   everChanged, lastChangeAt>>

\* line 67: Instant::now() - debounce_duration
InitialEventTimeNow(t, window) == t
InitialEventTime(t, window) == t - window

\* lines 64-67: the loop state
InitLoopState ==
    /\ pc = "debounce"
    /\ last_state' = "Off"
    /\ last_event_time' = InitialEventTime(now, debounce_duration)
    /\ pc' = "stream"
    /\ step' = Did("init_loop_state")
    /\ UNCHANGED <<debounce_duration, loop_duration, files, watches, now,
                   requests, streamEnded, discoveryCalls, discoveryOutcome,
                   pubHist, firstPub, lastOutcome, lastRaw, lastRawAt, burst,
                   everChanged, lastChangeAt>>

\* line 69: notify.into_event_stream(&mut buffer)?
IntoEventStream(ok) ==
    /\ pc = "stream"
    /\ pc' = IF ok THEN "loop" ELSE "exited"
    /\ step' = Did("into_event_stream")
    /\ UNCHANGED <<debounce_duration, loop_duration, files, watches, now,
                   last_state, last_event_time, requests, streamEnded,
                   discoveryCalls, discoveryOutcome, pubHist, firstPub,
                   lastOutcome, lastRaw, lastRawAt, burst, everChanged,
                   lastChangeAt>>

\* ----------------------------------------------------------- main loop
\* an Ok event whose mask the match maps to a state: a raw signal
IsRawSignal(event) == event \in {"OPEN", "CLOSE_NOWRITE", "CLOSE_WRITE"}

\* lines 75-101: the detector branch of the select.  stream.next() yielded
\* Some(event); the candidate is computed, the debounce condition decides and
\* send_event is awaited before last_state and last_event_time are assigned.
DetectorSignal(event, res) ==
    /\ pc = "loop"
    /\ ~streamEnded
    /\ event # "ERR" => watches > 0
    /\ LET current_state == Candidate(event, last_state)
           elapsed == Elapsed(now, last_event_time)
           confirmed == Debounce(elapsed, debounce_duration,
                                 current_state, last_state)
           p == ClientPublish(requests, SendEventTopic, res)
           ret == SendEventReturn(p.outcome)
       IN  /\ IF confirmed
              THEN /\ requests' = p.chan
                   /\ pc' = CASE ret = "Ok" -> "loop"
                              [] ret = "Err" -> "exited"
                              [] OTHER -> "publishing"
                   /\ last_state' =
                          RecordState(p.outcome, current_state, last_state)
                   /\ last_event_time' =
                          RecordTime(p.outcome, now, last_event_time)
                   /\ step' = [kind |-> "signal", event |-> event,
                               candidate |-> current_state,
                               called |-> current_state,
                               payload |-> Payload(current_state),
                               outcome |-> p.outcome]
                   /\ pubHist' = LastN(Append(pubHist, current_state), 2)
                   /\ firstPub' = IF firstPub = "none" THEN current_state
                                  ELSE firstPub
                   /\ lastOutcome' = p.outcome
              ELSE /\ UNCHANGED <<requests, pc, last_state, last_event_time,
                                  pubHist, firstPub, lastOutcome>>
                   /\ step' = [kind |-> "signal", event |-> event,
                               candidate |-> current_state,
                               called |-> "none", payload |-> "none",
                               outcome |-> "none"]
           /\ lastRaw' = IF IsRawSignal(event) THEN current_state ELSE lastRaw
           /\ lastRawAt' = IF IsRawSignal(event) THEN now ELSE lastRawAt
           /\ burst' = IF confirmed
                       THEN IF p.outcome = "blocked" THEN burst ELSE <<>>
                       ELSE IF IsRawSignal(event) /\ elapsed < debounce_duration
                            THEN LastN(Append(burst, current_state), 3)
                            ELSE burst
    /\ everChanged' = (everChanged \/ last_state' # last_state)
    /\ lastChangeAt' = IF last_state' # last_state THEN now ELSE lastChangeAt
    /\ UNCHANGED <<debounce_duration, loop_duration, files, watches, now,
                   streamEnded, discoveryCalls, discoveryOutcome>>

\* line 75: stream.next() yields None; the pattern Some(event) does not match
\* and the branch is disabled for the rest of this iteration.  The next
\* iteration calls stream.next() again.
StreamEnd ==
    /\ pc = "loop"
    /\ ~streamEnded
    /\ streamEnded' = TRUE
    /\ step' = Did("stream_end")
    /\ UNCHANGED <<pc, debounce_duration, loop_duration, files, watches, now,
                   last_state, last_event_time, requests, discoveryCalls,
                   discoveryOutcome, pubHist, firstPub, lastOutcome, lastRaw,
                   lastRawAt, burst, everChanged, lastChangeAt>>

\* lines 102-114: eventloop.poll() yielded Ok(notification), which is logged;
\* the iteration is over and the next one polls the stream again.
\* The event loop takes a request out of the channel when it sends it, and
\* reports that as an Outgoing notification.
BrokerEvent(notification, drain) ==
    /\ pc = "loop"
    /\ drain => (notification = "Outgoing" /\ requests # <<>>)
    /\ requests' = IF drain THEN Tail(requests) ELSE requests
    /\ streamEnded' = FALSE
    /\ step' = Did("broker")
    /\ UNCHANGED <<pc, debounce_duration, loop_duration, files, watches, now,
                   last_state, last_event_time, discoveryCalls,
                   discoveryOutcome, pubHist, firstPub, lastOutcome, lastRaw,
                   lastRawAt, burst, everChanged, lastChangeAt>>

\* lines 115-118: the else branch runs when both patterns failed to match:
\* stream.next() gave None and eventloop.poll() gave Err.  It sleeps
\* loop_duration.
IdleTickResetsTimer ==
    /\ pc = "loop"
    /\ streamEnded
    /\ now + loop_duration <= MaxTime
    /\ now' = now + loop_duration
    /\ last_event_time' = now + loop_duration
    /\ streamEnded' = FALSE
    /\ step' = Did("idle")
    /\ UNCHANGED <<pc, debounce_duration, loop_duration, files, watches,
                   last_state, requests, discoveryCalls,
                   discoveryOutcome, pubHist, firstPub, lastOutcome, lastRaw,
                   lastRawAt, burst, everChanged, lastChangeAt>>
IdleTick ==
    /\ pc = "loop"
    /\ streamEnded
    /\ now + loop_duration <= MaxTime
    /\ now' = now + loop_duration
    /\ streamEnded' = FALSE
    /\ step' = Did("idle")
    /\ UNCHANGED <<pc, debounce_duration, loop_duration, files, watches,
                   last_state, last_event_time, requests,
                   discoveryCalls, discoveryOutcome, pubHist, firstPub,
                   lastOutcome, lastRaw, lastRawAt, burst, everChanged,
                   lastChangeAt>>

\* time passes while the select awaits its branches
Tick ==
    /\ pc = "loop"
    /\ now < MaxTime
    /\ now' = now + 1
    /\ step' = Did("tick")
    /\ UNCHANGED <<pc, debounce_duration, loop_duration, files, watches,
                   last_state, last_event_time, requests, streamEnded,
                   discoveryCalls, discoveryOutcome, pubHist, firstPub,
                   lastOutcome, lastRaw, lastRawAt, burst, everChanged,
                   lastChangeAt>>

Next ==
    \/ \E ok \in BOOLEAN : InotifyInit(ok)
    \/ AddWatch
    \/ NewClient
    \/ \E res \in PublishResults : WriteDiscovery(res)
    \/ InitLoopState
    \/ \E ok \in BOOLEAN : IntoEventStream(ok)
    \/ \E event \in DetectorEvents, res \in PublishResults :
          DetectorSignal(event, res)
    \/ StreamEnd
    \/ \E n \in Notifications, drain \in BOOLEAN : BrokerEvent(n, drain)
    \/ IdleTick
    \/ Tick

Spec == Init /\ [][Next]_vars

TypeOK ==
    /\ pc \in {"init", "glob", "discovery", "debounce", "stream", "loop",
               "publishing", "exited"}
    /\ debounce_duration \in 0..MaxWindow
    /\ loop_duration \in 1..MaxLoopDuration
    /\ watches \in 0..MaxDevices
    /\ now \in 0..MaxTime
    /\ last_state \in CameraState
    /\ last_event_time \in (0 - MaxWindow)..MaxTime
    /\ Len(requests) <= CHANNEL_CAP
    /\ streamEnded \in BOOLEAN
    /\ discoveryCalls \in 0..1

\* ================================================================ claims
\* a step of the detector branch has just been taken
SignalStep == step.kind = "signal"

\* send_event was called in the latest step and has returned
Published == SignalStep /\ step.called # "none" /\ step.outcome # "blocked"

\* C1: on every detector signal the loop handles, send_event is called if and
\* only if the time elapsed since the last confirmed transition is at least
\* the debounce window and the candidate differs from the last confirmed
\* state; it is called with the candidate, and when the handling completes
\* the confirmed state is the candidate and the elapsed time is zero again.
\* A signal that is not confirmed changes neither.
C1_ConfirmIffElapsedAndDiffers ==
    [][ SignalStep' =>
          LET elapsed == now - last_event_time
              candidate == step'.candidate
              confirm == elapsed >= debounce_duration /\ candidate # last_state
          IN  /\ (step'.called # "none") <=> confirm
              /\ confirm => step'.called = candidate
              /\ (confirm /\ pc' = "loop") =>
                    /\ last_state' = candidate
                    /\ now' - last_event_time' = 0
              /\ ~confirm => /\ last_state' = last_state
                             /\ last_event_time' = last_event_time
      ]_vars

\* C1 witness: a later transition (to Off) was confirmed under a non-zero
\* window, so the elapsed time had to reach the window first
C1_Witness ==
    /\ Published
    /\ step.called = "Off"
    /\ pc = "loop"
    /\ debounce_duration > 0
    /\ last_state = "Off"
    /\ last_event_time = now

\* the loop is awaiting its select and the window has been over, since the
\* latest raw signal, for longer than the window
QuietPastWindow ==
    /\ pc = "loop"
    /\ lastRaw # "none"
    /\ now - lastRawAt > debounce_duration

\* C2: with prior confirmed state Off, a burst On, Off, On that arrives
\* inside one debounce window confirms nothing while it is inside the window,
\* and once the window has elapsed on the final On exactly one On has been
\* published, even if no further detector signal arrives: the loop is never
\* found past the window with the burst behind it and Off still confirmed.
C2_BurstSettlesToOn ==
    (QuietPastWindow /\ burst = <<"On", "Off", "On">>) => last_state = "On"

\* C3: once the detector has been quiet for a full window, the confirmed
\* state equals the most recent raw signal (the transition a burst results in
\* carries the value of its last signal).
C3_QuietMeansLastSignalConfirmed ==
    QuietPastWindow => last_state = lastRaw

\* C4: two consecutive changes of the confirmed state are at least one full
\* debounce window apart.
C4_OneChangePerWindow ==
    [][ (everChanged /\ last_state' # last_state) =>
            now' - lastChangeAt >= debounce_duration ]_vars

\* C4 witness: a second change of the confirmed state under a non-zero window
C4_Witness ==
    /\ Published
    /\ everChanged
    /\ Len(pubHist) = 2
    /\ lastChangeAt = now
    /\ debounce_duration > 0
    /\ now >= debounce_duration

\* C5: a candidate equal to the confirmed state never publishes and never
\* resets the timer, however much time has elapsed: the confirmed state, the
\* last-transition timestamp and the request channel are left as they were.
C5_SameStateNoEffect ==
    [][ (SignalStep' /\ step'.candidate = last_state) =>
            /\ step'.called = "none"
            /\ last_state' = last_state
            /\ last_event_time' = last_event_time
            /\ requests' = requests
            /\ pubHist' = pubHist ]_vars

\* C5 witness: an Off close event handled with Off confirmed, long after the
\* window has elapsed
C5_Witness ==
    /\ SignalStep
    /\ step.event = "CLOSE_WRITE"
    /\ step.candidate = last_state
    /\ step.called = "none"
    /\ debounce_duration > 0
    /\ now - last_event_time >= 2 * debounce_duration

\* C6: the states passed to send_event never repeat twice in a row and the
\* first one is On; only the detector branch passes one.
C6_PublishedStatesAlternate ==
    [][ /\ firstPub' \in {"none", "On"}
        /\ Len(pubHist') = 2 => pubHist'[1] # pubHist'[2]
        /\ pubHist' # pubHist =>
              /\ SignalStep'
              /\ pubHist # <<>> => step'.called # pubHist[Len(pubHist)]
      ]_vars

\* C6 witness: after On, Off was published, an Off signal arrives when the
\* window has long elapsed and is not published again
C6_Witness ==
    /\ pubHist = <<"On", "Off">>
    /\ SignalStep
    /\ step.candidate = "Off"
    /\ step.called = "none"
    /\ debounce_duration > 0
    /\ now - last_event_time >= debounce_duration

\* C7: at loop entry the confirmed state is Off and the window counts as
\* already elapsed, so the first On signal is confirmed and published in the
\* step that handles it, at whatever time it arrives.
C7_FirstOnPublishedAtOnce ==
    [][ /\ (step'.kind = "into_event_stream" /\ pc' = "loop") =>
              /\ last_state' = "Off"
              /\ now' - last_event_time' >= debounce_duration
        /\ (SignalStep' /\ step'.candidate = "On" /\ firstPub = "none") =>
              /\ step'.called = "On"
              /\ step'.outcome # "blocked"
              /\ last_state' = "On"
      ]_vars

\* C7 witness: the first On is published at the very instant of loop entry
\* under the largest window
C7_Witness ==
    /\ Published
    /\ step.called = "On"
    /\ Len(pubHist) = 1
    /\ now = 0
    /\ debounce_duration = MaxWindow

\* number of discovery requests in the channel
ConfigRequests ==
    Cardinality({i \in DOMAIN requests : requests[i] = ConfigTopic})

\* C8: the discovery descriptor is published once per run that reaches the
\* publish: after the client is created and before the loop is entered,
\* before every state message, and never again afterwards.
C8_DiscoveryOnce ==
    [][ /\ discoveryCalls' <= 1
        /\ pc' \in {"debounce", "stream", "loop", "publishing"} =>
              discoveryCalls' = 1
        /\ firstPub' # "none" => discoveryCalls' = 1
        /\ discoveryCalls' # discoveryCalls =>
              (pc = "discovery" /\ step'.kind = "write_discovery")
        /\ ConfigRequests' > ConfigRequests => step'.kind = "write_discovery"
        /\ ConfigRequests' <= 1
      ]_vars

\* C8 witness: in the loop, after two state publishes and a broker event,
\* discovery has still been published once
C8_Witness ==
    /\ pc = "loop"
    /\ discoveryCalls = 1
    /\ Len(pubHist) = 2
    /\ step.kind = "broker"

\* C9: a failed publish of a confirmed On is absorbed: the loop continues,
\* On is recorded and the timer reset as on success, nothing is queued for a
\* retry, a later On signal is not published, and the next Off signal that
\* meets the window is passed to send_event.
C9_FailedPublishAbsorbed ==
    [][ /\ (SignalStep' /\ step'.called = "On" /\ step'.outcome = "err") =>
              /\ pc' = "loop"
              /\ last_state' = "On"
              /\ last_event_time' = now'
              /\ requests' = requests
        /\ (pc = "loop" /\ lastOutcome = "err" /\ last_state = "On"
                /\ SignalStep') =>
              /\ step'.candidate = "On" => step'.called = "none"
              /\ (step'.candidate = "Off"
                    /\ now - last_event_time >= debounce_duration) =>
                    step'.called = "Off"
      ]_vars

\* C9 witness: the publish of a confirmed On has just failed and the loop is
\* awaiting its next event with On recorded
C9_Witness ==
    /\ SignalStep
    /\ step.called = "On"
    /\ step.outcome = "err"
    /\ pc = "loop"
    /\ last_state = "On"
    /\ last_event_time = now

\* C10: once the loop is entered main never returns; a failed state publish,
\* an errored detector event, the end of the detector stream and an idle
\* iteration after a broker error all lead to a further iteration.
C10_LoopNeverExits ==
    [][ /\ pc \in {"loop", "publishing"} => pc' # "exited"
        /\ (SignalStep' /\ (step'.event = "ERR" \/ step'.outcome = "err")) =>
              pc' = "loop"
        /\ step'.kind \in {"stream_end", "idle", "broker"} => pc' = "loop"
      ]_vars

\* C10 witness: the stream gave None, the broker poll failed (the idle
\* branch ran) and the latest state publish failed, and the loop is running
C10_Witness ==
    /\ pc = "loop"
    /\ ~streamEnded
    /\ step.kind = "idle"
    /\ lastOutcome = "err"

\* C11: whenever the loop awaits its select, the idle tick is able to
\* complete the iteration once the idle interval has passed, whether or not
\* the detector or the broker has anything ready.
C11_IdleTickCompletesIteration ==
    (pc = "loop" /\ now + loop_duration <= MaxTime) => ENABLED IdleTick

\* C12: startup is fatal only when the watch mechanism cannot be initialised;
\* a path that cannot be enumerated or watched does not make main return.
C12_OnlyWatchInitFatal ==
    pc = "exited" => step.kind \in {"inotify_init", "into_event_stream"}

\* no device path matched: the glob loop is over (or never ran) with no watch
NoDevices ==
    /\ watches = 0
    /\ pc \in {"discovery", "debounce", "stream", "loop", "publishing"}

\* C13: with no matching device path the glob loop does not abort, discovery
\* is published, the loop once entered is never left, the confirmed state
\* stays Off and no state message is ever published.
C13_NoDevicesStaysOff ==
    [][ /\ (pc = "glob" /\ files = <<>> /\ watches = 0) => pc' = "discovery"
        /\ NoDevices' =>
              /\ last_state' = "Off"
              /\ firstPub' = "none"
              /\ \A i \in DOMAIN requests' : requests'[i] # StateTopic
              /\ pc' \in {"stream", "loop"} => discoveryCalls' = 1
        /\ (NoDevices /\ pc = "loop") => pc' = "loop"
      ]_vars

\* C13 witness: no device, the loop has run to the end of the clock and has
\* just handled a detector event
C13_Witness ==
    /\ NoDevices
    /\ pc = "loop"
    /\ now = MaxTime
    /\ SignalStep
    /\ discoveryCalls = 1

\* C14: a broker notification or an idle tick changes neither the confirmed
\* state nor the last-transition timestamp and publishes nothing.
C14_BrokerAndIdleNoEffect ==
    [][ step'.kind \in {"broker", "idle"} =>
            /\ last_state' = last_state
            /\ last_event_time' = last_event_time
            /\ pubHist' = pubHist
            /\ firstPub' = firstPub
            /\ discoveryCalls' = discoveryCalls
            /\ Len(requests') <= Len(requests)
      ]_vars

\* C14 witness: an idle tick with On confirmed some time ago
C14_Witness ==
    /\ step.kind = "idle"
    /\ last_state = "On"
    /\ now > last_event_time
    /\ loop_duration > 0

\* C15: a failed discovery publish does not end the process and is not
\* retried; the loop is entered with Off confirmed and later confirmed
\* transitions are passed to send_event and recorded as usual.
C15_DiscoveryFailureAbsorbed ==
    [][ /\ (step'.kind = "write_discovery" /\ step'.outcome = "err") =>
              (pc' = "debounce" /\ requests' = requests)
        /\ discoveryOutcome' = "err" =>
              /\ discoveryCalls' = 1
              /\ ConfigRequests' = 0
              /\ pc' = "exited" => step'.kind = "into_event_stream"
              /\ (step'.kind = "into_event_stream" /\ pc' = "loop") =>
                    last_state' = "Off"
              /\ SignalStep' =>
                    LET confirm ==
                          /\ now - last_event_time >= debounce_duration
                          /\ step'.candidate # last_state
                    IN  /\ confirm <=> step'.called # "none"
                        /\ (confirm /\ pc' = "loop") =>
                              last_state' = step'.candidate
      ]_vars

\* C15 witness: discovery failed, and a later transition was published
C15_Witness ==
    /\ discoveryOutcome = "err"
    /\ Published
    /\ step.outcome = "ok"
    /\ step.called = "Off"
    /\ requests # <<>>

\* C16: every open event gives the candidate On and every close event, of
\* either kind, the candidate Off; the message published for On carries "ON"
\* and the one for Off carries "OFF".
C16_EventAndPayloadMapping ==
    SignalStep =>
        /\ step.event = "OPEN" => step.candidate = "On"
        /\ step.event \in {"CLOSE_NOWRITE", "CLOSE_WRITE"} =>
              step.candidate = "Off"
        /\ step.called = "On" => step.payload = "ON"
        /\ step.called = "Off" => step.payload = "OFF"
        /\ step.called = "none" => step.payload = "none"

\* C16 witness: a write-close was confirmed and published as "OFF"
C16_Witness ==
    /\ SignalStep
    /\ step.event = "CLOSE_WRITE"
    /\ step.called = "Off"
    /\ step.payload = "OFF"
    /\ step.outcome = "ok"

\* C17: the coordinator is never left inside a publish that does not return:
\* the request channel never fills in a way that leaves the loop stuck.
C17_PublishNeverBlocks ==
    pc # "publishing"

\* the state passed to the latest send_event call, Off if there was none
LatestPublished == IF pubHist = <<>> THEN "Off" ELSE pubHist[Len(pubHist)]

\* C18: between loop iterations the confirmed state is the state passed to
\* the latest send_event call (Off before the first), and it changes only in
\* a step that calls send_event.
C18_StateIsLatestPublished ==
    [][ /\ pc' = "loop" => last_state' = LatestPublished'
        /\ last_state' # last_state =>
              (SignalStep' /\ step'.called = last_state')
      ]_vars

\* C18 witness: between iterations, after a second publish that failed
C18_Witness ==
    /\ pc = "loop"
    /\ step.kind = "tick"
    /\ Len(pubHist) = 2
    /\ lastOutcome = "err"
    /\ last_state = pubHist[2]

\* C19: an errored detector event, or one whose mask is neither open nor a
\* close, gives a candidate equal to the confirmed state; handling it
\* publishes nothing and leaves the confirmed state and the timestamp alone.
C19_OtherEventsNoEffect ==
    [][ (SignalStep' /\ step'.event \in {"ERR", "OTHER"}) =>
            /\ step'.candidate = last_state
            /\ step'.called = "none"
            /\ last_state' = last_state
            /\ last_event_time' = last_event_time
            /\ requests' = requests
      ]_vars

\* C19 witness: an event with another mask handled with On confirmed, after
\* the window has elapsed
C19_Witness ==
    /\ SignalStep
    /\ step.event = "OTHER"
    /\ last_state = "On"
    /\ step.called = "none"
    /\ debounce_duration > 0
    /\ now - last_event_time >= debounce_duration

====
